---- MODULE Spec2Model ----
(***************************************************************************)
(* Model of CMPE13_Lab5.X/LinkedList.c: a doubly-linked list of ListItems  *)
(* holding char* data.  The heap is a set of blocks; a ListItem pointer is *)
(* the address of a block or NULL; a data pointer is NULL or points to one *)
(* of the caller's strings (StrTab).                                       *)
(*                                                                         *)
(* Every function of the file is an operator from a heap (and arguments)   *)
(* to a result [st, heap, ret, swaps, out]:                                *)
(*   st = "ok"    the call returned ret and left the heap as given;        *)
(*   st = "fault" the call dereferenced NULL or a block that is not        *)
(*                allocated (undefined behaviour: nothing is promised);    *)
(*   st = "hang"  the call walks a cycle of links and never returns.       *)
(* malloc() does not initialise the block it returns, so the links of a    *)
(* ListItem that LinkedListNew() hands out hold whatever the block held:   *)
(* any pointer value.                                                      *)
(***************************************************************************)
EXTENDS Integers, Sequences, FiniteSets, TLC

\* Number of heap blocks the allocator can hand out under Spec.
NumAddr == 2

\* Longest chain ChainSpec starts from.
MaxChain == 5

NULL == 0

SUCCESS == 1

STANDARD_ERROR == 0

\* The caller's strings ("the strings themselves must be stored somewhere
\* else"): "", "cat", "dog", "duck", "goat", as sequences of letter numbers.
\* A data pointer d > 0 points to StrTab[d].
StrTab == << <<>>, <<3, 1, 20>>, <<4, 15, 7>>, <<4, 21, 3, 11>>, <<7, 15, 1, 20>> >>

DataPtr == 0..Len(StrTab)

\* The data pointers the caller passes under Spec: NULL, "cat", "dog".
SpecData == {NULL, 2, 3}

VARIABLES
    heap,     \* [live, nextItem, previousItem, data]: the ListItems allocated
    op,       \* the last call made
    a1,       \* its first ListItem argument
    a2,       \* its second ListItem argument
    dat,      \* its data argument
    ret,      \* what it returned
    status,   \* "ok", "fault" or "hang"
    swaps,    \* the LinkedListSwapData() calls LinkedListSort() made, in order
    pre,      \* the heap as it was before the last call
    out       \* the characters the last call wrote to stdout

vars == <<heap, op, a1, a2, dat, ret, status, swaps, pre, out>>

----------------------------------------------------------------------------
\* Heap blocks

AddrOf(H) == DOMAIN H.nextItem

\* The values an uninitialised pointer field may hold.
Garbage(H) == AddrOf(H) \cup {NULL}

\* What malloc(sizeof (ListItem)) may return: a block not in use, or NULL
\* when there is none.
Malloc(H) == IF AddrOf(H) \ H.live = {} THEN {NULL} ELSE AddrOf(H) \ H.live

\* free(temp): the block is no longer a ListItem; its content is not tracked.
Free(H, a) ==
    [live |-> H.live \ {a},
     nextItem |-> [H.nextItem EXCEPT ![a] = NULL],
     previousItem |-> [H.previousItem EXCEPT ![a] = NULL],
     data |-> [H.data EXCEPT ![a] = NULL]]

EmptyHeap(n) ==
    [live |-> {},
     nextItem |-> [a \in 1..n |-> NULL],
     previousItem |-> [a \in 1..n |-> NULL],
     data |-> [a \in 1..n |-> NULL]]

Ok(H, r) == [st |-> "ok", heap |-> H, ret |-> r, swaps |-> <<>>, out |-> <<>>]

Fault(H) == [st |-> "fault", heap |-> H, ret |-> NULL, swaps |-> <<>>, out |-> <<>>]

Hang(H) == [st |-> "hang", heap |-> H, ret |-> NULL, swaps |-> <<>>, out |-> <<>>]

----------------------------------------------------------------------------
\* <string.h>

strlen(d) == Len(StrTab[d])

RECURSIVE StrCmpFrom(_, _, _)
StrCmpFrom(s, t, i) ==
    LET c1 == IF i <= Len(s) THEN s[i] ELSE 0
        c2 == IF i <= Len(t) THEN t[i] ELSE 0
    IN  IF c1 # c2 THEN c1 - c2
        ELSE IF c1 = 0 THEN 0
        ELSE StrCmpFrom(s, t, i + 1)

strcmp(d1, d2) == StrCmpFrom(StrTab[d1], StrTab[d2], 1)

----------------------------------------------------------------------------
\* LinkedListNew(data), with m the pointer malloc() returned and gn, gp the
\* values the block's nextItem and previousItem fields held.
LinkedListNew(H, m, gn, gp, d) ==
    IF m = NULL
    THEN Fault(H)   \* temp->data = data before the test of temp
    ELSE Ok([live |-> H.live \cup {m},
             nextItem |-> [H.nextItem EXCEPT ![m] = gn],
             previousItem |-> [H.previousItem EXCEPT ![m] = gp],
             data |-> [H.data EXCEPT ![m] = d]], m)

\* LinkedListRemove(item)
LinkedListRemove(H, item) ==
    IF item \notin H.live
    THEN Fault(H)   \* temp->data is read before the test of temp
    ELSE
    LET n == H.nextItem[item]
        p == H.previousItem[item]
        d == H.data[item]
    IN  IF n = NULL /\ p = NULL THEN Ok(Free(H, item), d)
        ELSE IF n = NULL THEN
            IF p \notin H.live THEN Fault(H)
            ELSE Ok(Free([H EXCEPT !.nextItem[p] = NULL], item), d)
        ELSE IF p = NULL THEN
            IF n \notin H.live THEN Fault(H)
            ELSE Ok(Free([H EXCEPT !.previousItem[n] = NULL], item), d)
        ELSE
            IF n \notin H.live THEN Fault(H)
            ELSE
            LET H1 == [H EXCEPT !.previousItem[n] = p]
                p1 == H1.previousItem[item]
                n1 == H1.nextItem[item]
            IN  IF p1 \notin H1.live THEN Fault(H)
                ELSE Ok(Free([H1 EXCEPT !.nextItem[p1] = n1], item), d)

\* The loop of LinkedListGetFirst(): first is an allocated ListItem; fuel is
\* the number of ListItems not yet visited.
RECURSIVE GetFirstLoop(_, _, _)
GetFirstLoop(H, first, fuel) ==
    LET q == H.previousItem[first]
    IN  IF q = NULL THEN Ok(H, first)
        ELSE IF q \notin H.live THEN Fault(H)
        ELSE IF fuel = 0 THEN Hang(H)
        ELSE GetFirstLoop(H, q, fuel - 1)

\* LinkedListGetFirst(list)
LinkedListGetFirst(H, list) ==
    IF list \notin H.live
    THEN Fault(H)   \* first->previousItem with no test of first
    ELSE GetFirstLoop(H, list, Cardinality(H.live) - 1)

\* The loop of LinkedListSize()
RECURSIVE SizeLoop(_, _, _, _)
SizeLoop(H, temp, count, fuel) ==
    IF temp = NULL THEN Ok(H, count)
    ELSE IF temp \notin H.live THEN Fault(H)
    ELSE IF fuel = 0 THEN Hang(H)
    ELSE SizeLoop(H, H.nextItem[temp], count + 1, fuel - 1)

\* LinkedListSize(list)
LinkedListSize(H, list) ==
    LET f == LinkedListGetFirst(H, list)
    IN  IF f.st # "ok" THEN f
        ELSE SizeLoop(H, f.ret, 0, Cardinality(H.live))

\* LinkedListCreateAfter(item, data), with m, gn, gp as in LinkedListNew.
LinkedListCreateAfter(H, item, m, gn, gp, d) ==
    LET r == LinkedListNew(H, m, gn, gp, d)
        H0 == r.heap
    IN  IF r.st # "ok" THEN r
        ELSE IF item \notin H0.live THEN Fault(H)   \* item->nextItem, no test of item
        ELSE IF H0.nextItem[item] = NULL THEN
            LET H1 == [H0 EXCEPT !.nextItem[m] = NULL]
                H2 == [H1 EXCEPT !.previousItem[m] = item]
            IN  Ok([H2 EXCEPT !.nextItem[item] = m], m)
        ELSE
            LET H1 == [H0 EXCEPT !.previousItem[m] = item]
                H2 == [H1 EXCEPT !.nextItem[m] = H1.nextItem[item]]
                q  == H2.nextItem[item]
            IN  IF q \notin H2.live THEN Fault(H)
                ELSE LET H3 == [H2 EXCEPT !.previousItem[q] = m]
                     IN  Ok([H3 EXCEPT !.nextItem[item] = m], m)

\* LinkedListSwapData() without its temp: secondItem->data is assigned from
\* firstItem->data after that was overwritten.
LinkedListSwapData_lostTemp(H, firstItem, secondItem) ==
    IF firstItem # NULL \/ secondItem # NULL
    THEN IF firstItem \notin H.live \/ secondItem \notin H.live
         THEN Fault(H)
         ELSE LET H1 == [H EXCEPT !.data[firstItem] = H.data[secondItem]]
              IN  Ok([H1 EXCEPT !.data[secondItem] = H1.data[firstItem]], SUCCESS)
    ELSE Ok(H, STANDARD_ERROR)

\* LinkedListSwapData() exchanging the previousItem fields along with the
\* data, as a swap of the ListItems rather than of their data would.
LinkedListSwapData_swapsLinks(H, firstItem, secondItem) ==
    IF firstItem # NULL \/ secondItem # NULL
    THEN IF firstItem \notin H.live \/ secondItem \notin H.live
         THEN Fault(H)
         ELSE LET temp == H.data[firstItem]
                  tprev == H.previousItem[firstItem]
                  H1 == [H EXCEPT !.data[firstItem] = H.data[secondItem]]
                  H2 == [H1 EXCEPT !.data[secondItem] = temp]
                  H3 == [H2 EXCEPT !.previousItem[firstItem] = H.previousItem[secondItem]]
              IN  Ok([H3 EXCEPT !.previousItem[secondItem] = tprev], SUCCESS)
    ELSE Ok(H, STANDARD_ERROR)

\* LinkedListSwapData(firstItem, secondItem)
LinkedListSwapData(H, firstItem, secondItem) ==
    IF firstItem # NULL \/ secondItem # NULL
    THEN IF firstItem \notin H.live \/ secondItem \notin H.live
         THEN Fault(H)
         ELSE LET temp == H.data[firstItem]
                  H1 == [H EXCEPT !.data[firstItem] = H.data[secondItem]]
              IN  Ok([H1 EXCEPT !.data[secondItem] = temp], SUCCESS)
    ELSE Ok(H, STANDARD_ERROR)

\* The test of LinkedListSort() with the arguments of strcmp() exchanged.
SortSwaps_strcmpExchanged(sd, cd) ==
    \/ cd = NULL
    \/ cd # NULL /\ strlen(sd) > strlen(cd)
    \/ cd # NULL /\ strlen(sd) = strlen(cd) /\ strcmp(sd, cd) < 0

\* The test of LinkedListSort() with strcmp() <= 0 for strcmp() < 0.
SortSwaps_swapsEqual(sd, cd) ==
    \/ cd = NULL
    \/ cd # NULL /\ strlen(sd) > strlen(cd)
    \/ cd # NULL /\ strlen(sd) = strlen(cd) /\ strcmp(cd, sd) <= 0

\* The test LinkedListSort() makes on select->data (not NULL) and cmp->data
\* (cmp allocated) to decide whether to swap them.
SortSwaps(sd, cd) ==
    \/ cd = NULL
    \/ cd # NULL /\ strlen(sd) > strlen(cd)
    \/ cd # NULL /\ strlen(sd) = strlen(cd) /\ strcmp(cd, sd) < 0

\* The inner loop of LinkedListSort(): cmp runs from select->nextItem on.
RECURSIVE SortInner(_, _, _, _, _)
SortInner(H, select, cmp, fuel, log) ==
    IF cmp = NULL THEN [st |-> "ok", heap |-> H, ret |-> SUCCESS, swaps |-> log, out |-> <<>>]
    ELSE IF H.data[select] = NULL   \* break
    THEN [st |-> "ok", heap |-> H, ret |-> SUCCESS, swaps |-> log, out |-> <<>>]
    ELSE IF cmp \notin H.live THEN Fault(H)
    ELSE IF fuel = 0 THEN Hang(H)
    ELSE
    LET sd == H.data[select]
        cd == H.data[cmp]
        sw == SortSwaps(sd, cd)
        H1 == IF sw THEN LinkedListSwapData(H, select, cmp).heap ELSE H
        l1 == IF sw THEN Append(log, <<select, cmp, sd, cd>>) ELSE log
    IN  SortInner(H1, select, H1.nextItem[cmp], fuel - 1, l1)

\* The outer loop of LinkedListSort(): select is an allocated ListItem.
RECURSIVE SortOuter(_, _, _, _)
SortOuter(H, select, fuel, log) ==
    IF H.nextItem[select] = NULL
    THEN [st |-> "ok", heap |-> H, ret |-> SUCCESS, swaps |-> log, out |-> <<>>]
    ELSE
    LET r == SortInner(H, select, H.nextItem[select], Cardinality(H.live), log)
        s == r.heap.nextItem[select]
    IN  IF r.st # "ok" THEN r
        ELSE IF s \notin H.live THEN Fault(H)
        ELSE IF fuel = 0 THEN Hang(H)
        ELSE SortOuter(r.heap, s, fuel - 1, r.swaps)

\* LinkedListSort(list)
LinkedListSort(H, list) ==
    IF list = NULL THEN Ok(H, STANDARD_ERROR)
    ELSE IF list \notin H.live THEN Fault(H)
    ELSE SortOuter(H, list, Cardinality(H.live) - 1, <<>>)

----------------------------------------------------------------------------
\* <stdio.h>: stdout as a sequence of ASCII codes.  The letters of StrTab are
\* numbered from 1 ('a').

\* "{"
LBrace == <<123>>

\* "}\n"
RBraceNewline == <<125, 10>>

\* "-(null)-"
NullSegment == <<45, 40, 110, 117, 108, 108, 41, 45>>

\* printf("-%s-", data)
StringSegment(d) == <<45>> \o [i \in 1..Len(StrTab[d]) |-> 96 + StrTab[d][i]] \o <<45>>

\* The loop of LinkedListPrint(), acc being what was written so far.
RECURSIVE PrintLoop(_, _, _, _)
PrintLoop(H, list, fuel, acc) ==
    IF list = NULL
    THEN [st |-> "ok", heap |-> H, ret |-> SUCCESS, swaps |-> <<>>,
          out |-> acc \o RBraceNewline]
    ELSE IF list \notin H.live THEN Fault(H)
    ELSE IF fuel = 0 THEN Hang(H)
    ELSE PrintLoop(H, H.nextItem[list], fuel - 1,
                   acc \o (IF H.data[list] = NULL THEN NullSegment
                           ELSE StringSegment(H.data[list])))

\* LinkedListPrint(list)
LinkedListPrint(H, list) ==
    IF list = NULL THEN Ok(H, STANDARD_ERROR)
    ELSE LET f == LinkedListGetFirst(H, list)
         IN  IF f.st # "ok" THEN f
             ELSE PrintLoop(H, f.ret, Cardinality(H.live), LBrace)

----------------------------------------------------------------------------
\* The caller: one call at a time, on NULL or on a ListItem it was handed and
\* has not removed.  A call that faults or hangs ends the program.

Handles == heap.live \cup {NULL}

Call(o, x, y, d, r) ==
    /\ status = "ok"
    /\ heap' = r.heap
    /\ op' = o
    /\ a1' = x
    /\ a2' = y
    /\ dat' = d
    /\ ret' = r.ret
    /\ status' = r.st
    /\ swaps' = r.swaps
    /\ pre' = heap
    /\ out' = r.out

New ==
    \E d \in SpecData, m \in Malloc(heap), gn \in Garbage(heap), gp \in Garbage(heap) :
        Call("New", NULL, NULL, d, LinkedListNew(heap, m, gn, gp, d))

Remove ==
    \E item \in Handles :
        Call("Remove", item, NULL, NULL, LinkedListRemove(heap, item))

Size ==
    \E list \in Handles :
        Call("Size", list, NULL, NULL, LinkedListSize(heap, list))

GetFirst ==
    \E list \in Handles :
        Call("GetFirst", list, NULL, NULL, LinkedListGetFirst(heap, list))

CreateAfter ==
    \E item \in Handles, d \in SpecData, m \in Malloc(heap),
       gn \in Garbage(heap), gp \in Garbage(heap) :
        Call("CreateAfter", item, NULL, d, LinkedListCreateAfter(heap, item, m, gn, gp, d))

SwapData ==
    \E firstItem \in Handles, secondItem \in Handles :
        Call("SwapData", firstItem, secondItem, NULL,
             LinkedListSwapData(heap, firstItem, secondItem))

Sort ==
    \E list \in Handles :
        Call("Sort", list, NULL, NULL, LinkedListSort(heap, list))

PrintList ==
    \E list \in Handles :
        Call("Print", list, NULL, NULL, LinkedListPrint(heap, list))

NoCall ==
    /\ op = "none"
    /\ a1 = NULL
    /\ a2 = NULL
    /\ dat = NULL
    /\ ret = NULL
    /\ status = "ok"
    /\ swaps = <<>>
    /\ pre = heap
    /\ out = <<>>

\* The program starts with nothing allocated.
Init ==
    /\ heap = EmptyHeap(NumAddr)
    /\ NoCall

Next == New \/ Remove \/ Size \/ GetFirst \/ CreateAfter \/ SwapData \/ Sort
          \/ PrintList

Spec == Init /\ [][Next]_vars

\* A list of n ListItems built by LinkedListNew() and LinkedListCreateAfter()
\* at the tail, in blocks 1..n whose link fields held NULL, with data f.
ChainHeap(n, f) ==
    [live |-> 1..n,
     nextItem |-> [a \in 1..n |-> IF a = n THEN NULL ELSE a + 1],
     previousItem |-> [a \in 1..n |-> a - 1],
     data |-> f]

ChainInit ==
    /\ \E n \in 1..MaxChain : \E f \in [1..n -> DataPtr] : heap = ChainHeap(n, f)
    /\ NoCall

\* Under ChainSpec the caller makes one call on the list it has built.
ChainSort == op = "none" /\ Sort

ChainSwapData == op = "none" /\ SwapData

ChainPrint == op = "none" /\ PrintList

ChainNext == ChainSort \/ ChainSwapData \/ ChainPrint

ChainSpec == ChainInit /\ [][ChainNext]_vars

----------------------------------------------------------------------------
\* What the claims speak of

Live == heap.live

\* Some block was free before the last call ("storage is available").
HadStorage == AddrOf(pre) \ pre.live # {}

\* The ListItems linked to x, directly or not, by nextItem or previousItem.
RECURSIVE Linked(_, _)
Linked(H, S) ==
    LET T == S \cup ({H.nextItem[y] : y \in S} \cap H.live)
                \cup ({H.previousItem[y] : y \in S} \cap H.live)
    IN  IF T = S THEN S ELSE Linked(H, T)

ChainOf(H, x) == Linked(H, {x})

\* The data read from p on by nextItem, as far as allocated ListItems go.
RECURSIVE PayloadsFrom(_, _, _)
PayloadsFrom(H, p, fuel) ==
    IF p \notin H.live \/ fuel = 0 THEN <<>>
    ELSE <<H.data[p]>> \o PayloadsFrom(H, H.nextItem[p], fuel - 1)

Payloads(H, h) == PayloadsFrom(H, h, Cardinality(H.live))

\* The string a payload stands for in the ordering: an absent payload counts
\* as a string of length 0.
Content(d) == IF d = NULL THEN <<>> ELSE StrTab[d]

\* s comes before t, or is t, among strings of one length.
LexLeq(s, t) ==
    \/ s = t
    \/ \E i \in 1..Len(s) : s[i] < t[i] /\ \A j \in 1..(i - 1) : s[j] = t[j]

\* d1 sorts no later than d2: by length, then by content.
SortsLeq(d1, d2) ==
    \/ Len(Content(d1)) < Len(Content(d2))
    \/ Len(Content(d1)) = Len(Content(d2)) /\ LexLeq(Content(d1), Content(d2))

Ascending(seq) == \A i \in 1..(Len(seq) - 1) : SortsLeq(seq[i], seq[i + 1])

Count(seq, d) == Cardinality({i \in 1..Len(seq) : seq[i] = d})

Permutation(s, t) == Len(s) = Len(t) /\ \A d \in DataPtr : Count(s, d) = Count(t, d)

----------------------------------------------------------------------------
\* C1: in every state the program reaches, the links of allocated ListItems
\* agree: for all ListItems A and B, A.nextItem = B exactly when
\* B.previousItem = A.
C1_LinksConsistent ==
    \A A \in Live, B \in Live :
        (heap.nextItem[A] = B) <=> (heap.previousItem[B] = A)

\* C2: LinkedListNew(data), when a block is free, returns a new ListItem
\* that holds data and whose nextItem and previousItem are both NULL, so it
\* is a list of size 1 whose head is itself.
C2_NewUnlinked ==
    (op = "New" /\ HadStorage) =>
        /\ status = "ok"
        /\ ret \in Live \ pre.live
        /\ heap.data[ret] = dat
        /\ heap.nextItem[ret] = NULL
        /\ heap.previousItem[ret] = NULL
        /\ LinkedListGetFirst(heap, ret) = Ok(heap, ret)
        /\ LinkedListSize(heap, ret) = Ok(heap, 1)

\* C3: LinkedListCreateAfter(A, data) on an allocated A, when a block is
\* free, returns a new ListItem B with A.nextItem = B, B.previousItem = A and
\* B.data = data; if A had a next ListItem C before the call then
\* B.nextItem = C and C.previousItem = B, otherwise B.nextItem = NULL.
C3_CreateAfterLinks ==
    (op = "CreateAfter" /\ a1 \in pre.live /\ HadStorage) =>
        /\ status = "ok"
        /\ ret \in Live \ pre.live
        /\ heap.nextItem[a1] = ret
        /\ heap.previousItem[ret] = a1
        /\ heap.data[ret] = dat
        /\ LET C == pre.nextItem[a1]
           IN  IF C \in pre.live
               THEN heap.nextItem[ret] = C /\ heap.previousItem[C] = ret
               ELSE heap.nextItem[ret] = NULL

\* C4: LinkedListRemove(item) on an allocated item returns the data item
\* held and reconnects its neighbours P (previous) and N (next): with both,
\* P.nextItem = N and N.previousItem = P; with N alone, N.previousItem = NULL;
\* with P alone, P.nextItem = NULL; with neither, no other ListItem changes.
\* Afterwards no allocated ListItem's nextItem or previousItem is item.
C4_RemoveReconnects ==
    (op = "Remove" /\ a1 \in pre.live) =>
        /\ status = "ok"
        /\ ret = pre.data[a1]
        /\ Live = pre.live \ {a1}
        /\ LET P == pre.previousItem[a1]
               N == pre.nextItem[a1]
           IN  /\ (P # NULL /\ N # NULL) =>
                      heap.nextItem[P] = N /\ heap.previousItem[N] = P
               /\ (P = NULL /\ N # NULL) => heap.previousItem[N] = NULL
               /\ (P # NULL /\ N = NULL) => heap.nextItem[P] = NULL
               /\ (P = NULL /\ N = NULL) => heap = Free(pre, a1)
        /\ \A m \in Live : heap.nextItem[m] # a1 /\ heap.previousItem[m] # a1

\* The example of C5: [dog, cat, duck, goat, NULL] and its sorted order.
DogCatDuckGoatNull == <<3, 2, 4, 5, NULL>>

NullCatDogDuckGoat == <<NULL, 2, 3, 4, 5>>

\* The last call was LinkedListSort() on the head of a list, and it returned
\* SUCCESS.
SortedFromHead ==
    /\ op = "Sort"
    /\ a1 \in pre.live
    /\ pre.previousItem[a1] = NULL
    /\ status = "ok"
    /\ ret = SUCCESS

\* C5: after LinkedListSort(h) on the head h of a list returns SUCCESS, the
\* data read from head to tail are in ascending order by length (NULL
\* counting as length 0) and then by content, and they are a permutation of
\* the data the list held before; [dog, cat, duck, goat, NULL] becomes
\* [NULL, cat, dog, duck, goat].
C5_SortFromHead ==
    SortedFromHead =>
        /\ Ascending(Payloads(heap, a1))
        /\ Permutation(Payloads(pre, a1), Payloads(heap, a1))
        /\ Payloads(pre, a1) = DogCatDuckGoatNull =>
               Payloads(heap, a1) = NullCatDogDuckGoat

C5_Witness ==
    /\ SortedFromHead
    /\ Payloads(pre, a1) = DogCatDuckGoatNull
    /\ Payloads(heap, a1) = NullCatDogDuckGoat

\* C6: LinkedListSort(x) takes any ListItem x of a list: after it returns
\* SUCCESS the data of the whole list, read from its head to its tail, are in
\* ascending order.
C6_SortFromAny ==
    (op = "Sort" /\ a1 \in pre.live /\ status = "ok" /\ ret = SUCCESS) =>
        \A h \in ChainOf(heap, a1) :
            heap.previousItem[h] = NULL => Ascending(Payloads(heap, h))

\* C7: for every allocated x, LinkedListSize(x) is the number of ListItems
\* of x's list; it is the same from the head and from every ListItem of the
\* list.
C7_SizeOfChain ==
    (op = "Size" /\ a1 \in pre.live) =>
        /\ status = "ok"
        /\ ret = Cardinality(ChainOf(heap, a1))
        /\ LET f == LinkedListGetFirst(heap, a1)
           IN  f.st = "ok" /\ LinkedListSize(heap, f.ret) = Ok(heap, ret)
        /\ \A y \in ChainOf(heap, a1) : LinkedListSize(heap, y) = Ok(heap, ret)

\* C8: for every allocated x, LinkedListGetFirst(x) returns the one ListItem
\* of x's list whose previousItem is NULL; applied to its own result it
\* returns that result; it changes no link and no data.
C8_GetFirstHead ==
    (op = "GetFirst" /\ a1 \in pre.live) =>
        /\ status = "ok"
        /\ ret \in ChainOf(heap, a1)
        /\ \A y \in ChainOf(heap, a1) : heap.previousItem[y] = NULL <=> y = ret
        /\ LinkedListGetFirst(heap, ret) = Ok(heap, ret)
        /\ heap = pre

\* C9: in every state the program reaches, every list is finite and without
\* a cycle, has exactly one head (previousItem NULL) and exactly one tail
\* (nextItem NULL), and all its ListItems are reached from the head by
\* nextItem.
C9_ChainShape ==
    \A x \in Live :
        LET ch == ChainOf(heap, x)
            heads == {y \in ch : heap.previousItem[y] = NULL}
            tails == {y \in ch : heap.nextItem[y] = NULL}
        IN  /\ Cardinality(heads) = 1
            /\ Cardinality(tails) = 1
            /\ \A h \in heads :
                   LinkedListSize(heap, h) = Ok(heap, Cardinality(ch))

\* C10: LinkedListSwapData(A, B) on two allocated ListItems returns SUCCESS,
\* leaves A with B's former data and B with A's (NULL data like any other),
\* changes no link and no other ListItem's data, and applied a second time
\* restores the data as they were.
C10_SwapData ==
    (op = "SwapData" /\ a1 \in pre.live /\ a2 \in pre.live) =>
        /\ status = "ok"
        /\ ret = SUCCESS
        /\ heap.data[a1] = pre.data[a2]
        /\ heap.data[a2] = pre.data[a1]
        /\ heap.live = pre.live
        /\ heap.nextItem = pre.nextItem
        /\ heap.previousItem = pre.previousItem
        /\ \A m \in AddrOf(heap) \ {a1, a2} : heap.data[m] = pre.data[m]
        /\ LinkedListSwapData(heap, a1, a2) = Ok(pre, SUCCESS)

C10_Witness ==
    /\ op = "SwapData"
    /\ status = "ok"
    /\ a1 \in pre.live
    /\ a2 \in pre.live
    /\ a1 # a2
    /\ pre.data[a1] = NULL
    /\ pre.data[a2] # NULL
    /\ heap.data[a1] = pre.data[a2]
    /\ heap.data[a2] = NULL

\* C11: LinkedListSwapData() returns STANDARD_ERROR and changes no data
\* whenever either of its arguments is NULL, never dereferencing it, and
\* returns SUCCESS otherwise.
C11_SwapDataNull ==
    op = "SwapData" =>
        /\ status = "ok"
        /\ (a1 = NULL \/ a2 = NULL) => (ret = STANDARD_ERROR /\ heap = pre)
        /\ (a1 # NULL /\ a2 # NULL) => ret = SUCCESS

\* C12: LinkedListRemove(NULL) returns NULL without dereferencing its
\* argument and without changing or freeing any ListItem.
C12_RemoveNull ==
    (op = "Remove" /\ a1 = NULL) =>
        status = "ok" /\ ret = NULL /\ heap = pre

\* C13: LinkedListGetFirst(NULL) returns NULL and LinkedListSize(NULL)
\* returns 0, neither dereferencing its argument nor changing anything.
C13_TraverseNull ==
    /\ (op = "GetFirst" /\ a1 = NULL) => (status = "ok" /\ ret = NULL /\ heap = pre)
    /\ (op = "Size" /\ a1 = NULL) => (status = "ok" /\ ret = 0 /\ heap = pre)

\* C14: LinkedListCreateAfter(NULL, data), when a block is free, returns a
\* new ListItem that holds data and whose previousItem is NULL, and changes
\* no ListItem there was.
C14_CreateAfterNull ==
    (op = "CreateAfter" /\ a1 = NULL /\ HadStorage) =>
        /\ status = "ok"
        /\ ret \in Live \ pre.live
        /\ heap.data[ret] = dat
        /\ heap.previousItem[ret] = NULL
        /\ \A m \in pre.live :
               /\ m \in Live
               /\ heap.nextItem[m] = pre.nextItem[m]
               /\ heap.previousItem[m] = pre.previousItem[m]
               /\ heap.data[m] = pre.data[m]

\* C15: when no block can be had, LinkedListNew() and
\* LinkedListCreateAfter() return NULL without writing through the pointer
\* malloc() returned, and no link or data of any ListItem changes.
C15_NoStorage ==
    (op \in {"New", "CreateAfter"} /\ ~HadStorage /\ (op = "New" \/ a1 \in pre.live)) =>
        status = "ok" /\ ret = NULL /\ heap = pre

\* The ListItems met from p on by nextItem, in order.
RECURSIVE NodesFrom(_, _, _)
NodesFrom(H, p, fuel) ==
    IF p \notin H.live \/ fuel = 0 THEN <<>>
    ELSE <<p>> \o NodesFrom(H, H.nextItem[p], fuel - 1)

\* The ListItems of x's list from its head to its tail (<<>> if no head is
\* found from x).
Order(H, x) ==
    LET f == LinkedListGetFirst(H, x)
    IN  IF f.st = "ok" THEN NodesFrom(H, f.ret, Cardinality(H.live)) ELSE <<>>

\* C16: LinkedListSort(x) on an allocated x changes data fields only: when
\* it has returned, the same ListItems are allocated, each with the
\* nextItem and previousItem it had, so the size of the list and the order of
\* its ListItems from head to tail are as before.
C16_SortFrame ==
    (op = "Sort" /\ a1 \in pre.live /\ status = "ok") =>
        /\ heap.live = pre.live
        /\ heap.nextItem = pre.nextItem
        /\ heap.previousItem = pre.previousItem
        /\ Order(heap, a1) = Order(pre, a1)
        /\ LinkedListSize(heap, a1) = LinkedListSize([pre EXCEPT !.data = heap.data], a1)

C16_Witness ==
    /\ op = "Sort"
    /\ status = "ok"
    /\ a1 \in pre.live
    /\ pre.previousItem[a1] # NULL
    /\ Len(Order(pre, a1)) >= 3
    /\ Order(heap, a1) = Order(pre, a1)
    /\ Len(swaps) >= 2
    /\ heap.data # pre.data

\* C17: every function called on allocated ListItems of a list the program
\* has built returns: no walk by previousItem or nextItem goes on for ever.
C17_Terminates ==
    (/\ op \in {"GetFirst", "Size", "Sort", "Print", "CreateAfter", "Remove", "SwapData"}
     /\ a1 \in pre.live
     /\ op = "SwapData" => a2 \in pre.live) =>
        status # "hang"

\* What the claim has stdout hold for a list with the data seq.
Dash == <<45>>

Text(d) == IF d = NULL THEN <<40, 110, 117, 108, 108, 41>>
           ELSE [i \in 1..Len(StrTab[d]) |-> 96 + StrTab[d][i]]

RECURSIVE Segments(_)
Segments(seq) ==
    IF seq = <<>> THEN <<>>
    ELSE Dash \o Text(Head(seq)) \o Dash \o Segments(Tail(seq))

Rendering(seq) == <<123>> \o Segments(seq) \o <<125>>

\* {-(null)--cat--dog--duck--goat-}
RenderedExample ==
    <<123, 45, 40, 110, 117, 108, 108, 41, 45, 45, 99, 97, 116, 45,
      45, 100, 111, 103, 45, 45, 100, 117, 99, 107, 45,
      45, 103, 111, 97, 116, 45, 125>>

\* C18: LinkedListPrint(x) on an allocated x returns SUCCESS, changes
\* nothing, and writes one line: '{', then from the head of x's list to its
\* tail '-<data>-' for each ListItem ('-(null)-' for NULL data), then '}';
\* for [NULL, cat, dog, duck, goat] the line is
\* {-(null)--cat--dog--duck--goat-}.  LinkedListPrint(NULL) writes nothing
\* and returns STANDARD_ERROR.
C18_PrintRendering ==
    /\ (op = "Print" /\ a1 \in pre.live) =>
           /\ status = "ok"
           /\ ret = SUCCESS
           /\ heap = pre
           /\ \E h \in ChainOf(heap, a1) :
                  /\ heap.previousItem[h] = NULL
                  /\ out = Rendering(Payloads(heap, h)) \o <<10>>
                  /\ Payloads(heap, h) = NullCatDogDuckGoat =>
                         out = RenderedExample \o <<10>>
    /\ (op = "Print" /\ a1 = NULL) =>
           status = "ok" /\ ret = STANDARD_ERROR /\ out = <<>> /\ heap = pre

\* d1 sorts strictly earlier than d2.
SortsBefore(d1, d2) == SortsLeq(d1, d2) /\ ~SortsLeq(d2, d1)

\* C19 as stated: LinkedListSort() swaps the current data (select) with a
\* later candidate (cmp) only when the candidate sorts strictly earlier, NULL
\* counting as a string of length 0; a candidate that compares equal, NULL
\* against "" included, is never swapped.
C19_SwapsOnlyStrictlyEarlier ==
    op = "Sort" =>
        \A i \in 1..Len(swaps) : SortsBefore(swaps[i][4], swaps[i][3])

\* C19 as amended: LinkedListSort() swaps the current data with a later
\* candidate only when the candidate sorts strictly earlier, or the candidate
\* is NULL and the current data is the empty string; a candidate that is not
\* NULL and compares equal is never swapped.
C19_SwapsEarlierOrNullForEmpty ==
    op = "Sort" =>
        \A i \in 1..Len(swaps) :
            \/ SortsBefore(swaps[i][4], swaps[i][3])
            \/ swaps[i][4] = NULL /\ swaps[i][3] # NULL /\ Content(swaps[i][3]) = <<>>

C19_Witness ==
    /\ op = "Sort"
    /\ status = "ok"
    /\ \E i \in 1..Len(swaps) : swaps[i][4] = NULL /\ swaps[i][3] = 1
    /\ \E i \in 1..Len(swaps) : SortsBefore(swaps[i][4], swaps[i][3])

Without(seq, x) == SelectSeq(seq, LAMBDA e : e # x)

\* C20: LinkedListCreateAfter() and LinkedListRemove() on an allocated
\* ListItem leave the rest of the list as it was: the other ListItems keep
\* their order from head to tail and their data, and the size of the list,
\* taken from any ListItem that remains, is one more after CreateAfter and
\* one less after Remove.
C20_RestPreserved ==
    /\ (op = "CreateAfter" /\ a1 \in pre.live /\ HadStorage) =>
           /\ status = "ok"
           /\ \A m \in pre.live : m \in Live /\ heap.data[m] = pre.data[m]
           /\ Without(Order(heap, a1), ret) = Order(pre, a1)
           /\ \A y \in ChainOf(pre, a1) :
                  LinkedListSize(heap, y) = Ok(heap, LinkedListSize(pre, a1).ret + 1)
    /\ (op = "Remove" /\ a1 \in pre.live) =>
           /\ status = "ok"
           /\ \A m \in pre.live \ {a1} : m \in Live /\ heap.data[m] = pre.data[m]
           /\ \A y \in ChainOf(pre, a1) \ {a1} :
                  /\ Order(heap, y) = Without(Order(pre, a1), a1)
                  /\ LinkedListSize(heap, y) = Ok(heap, LinkedListSize(pre, a1).ret - 1)

====
